---------------------------- MODULE Spec2Model ----------------------------
(***************************************************************************)
(* The four HTTP handlers of the repository (api/bot.js holds two handler  *)
(* variants, api/imagine.js one, the unnamed part_000 one) and the helper  *)
(* functions of api/bot.js.                                                 *)
(*                                                                         *)
(* A JavaScript string is a sequence of one-character strings; a regular   *)
(* expression is an operator that computes the match the engine returns    *)
(* (leftmost start, greedy/lazy quantifiers with backtracking).            *)
(* A JavaScript value is a record [t, s, n, f]: t is the type tag, s the   *)
(* characters of a string, n a number (or 1/0 for a boolean), f the        *)
(* members of an object in source order.                                   *)
(***************************************************************************)
EXTENDS Integers, Sequences, FiniteSets, TLC

VARIABLES handler, req, env, pc, validText, calls, upstream, responses,
          fnText, fnCall, fnResult

vars == <<handler, req, env, pc, validText, calls, upstream, responses,
          fnText, fnCall, fnResult>>

reqVars == <<handler, req, env, pc, validText, calls, upstream, responses>>
fnVars == <<fnText, fnCall, fnResult>>

(***************************************************************************)
(* Bounds of the model.                                                    *)
(***************************************************************************)
\* the request text is a concatenation of at most MaxTok tokens of ReqTokens
MaxTok == 3
\* the text a helper function is applied to holds at most MaxFnTok tokens
MaxFnTok == 3

(***************************************************************************)
(* Strings.                                                                *)
(***************************************************************************)
Min(S) == CHOOSE x \in S : \A y \in S : x <= y
Max(S) == CHOOSE x \in S : \A y \in S : x >= y

LowerLetters == <<"a","b","c","d","e","f","g","h","i","j","k","l","m",
                  "n","o","p","q","r","s","t","u","v","w","x","y","z">>
UpperLetters == <<"A","B","C","D","E","F","G","H","I","J","K","L","M",
                  "N","O","P","Q","R","S","T","U","V","W","X","Y","Z">>
Digits == {"0","1","2","3","4","5","6","7","8","9"}

LowerSet == {LowerLetters[i] : i \in 1..26}
UpperSet == {UpperLetters[i] : i \in 1..26}
WordSet == LowerSet \cup UpperSet \cup Digits \cup {"_"}
\* the i flag: characters are compared after case folding
LowerOf == [c \in UpperSet |-> LowerLetters[CHOOSE i \in 1..26 : UpperLetters[i] = c]]

\* [a-zA-Z]
IsLetter(c) == c \in LowerSet \/ c \in UpperSet
\* \w
IsWord(c) == c \in WordSet
\* \s, over the white space of the alphabet
IsSpace(c) == c \in {" ", "\n", "\t"}
NotSpace(c) == ~IsSpace(c)
\* [^\s)]
NotSpaceNorParen(c) == ~IsSpace(c) /\ c # ")"

Lower(c) == IF c \in UpperSet THEN LowerOf[c] ELSE c
LowerStr(s) == [i \in 1..Len(s) |-> Lower(s[i])]

\* pat occurs in s at position i (1-based)
StartsAt(s, i, pat) ==
  /\ i >= 1
  /\ i + Len(pat) - 1 <= Len(s)
  /\ SubSeq(s, i, i + Len(pat) - 1) = pat
StartsAtI(s, i, pat) ==
  /\ i >= 1
  /\ i + Len(pat) - 1 <= Len(s)
  /\ LowerStr(SubSeq(s, i, i + Len(pat) - 1)) = LowerStr(pat)

\* String.prototype.indexOf from a position: 0 when pat does not occur
IndexFrom(s, pat, from) ==
  LET P == {i \in from..Len(s) : StartsAt(s, i, pat)}
  IN  IF P = {} THEN 0 ELSE Min(P)
indexOf(s, pat) == IndexFrom(s, pat, 1)
lastIndexOf(s, pat) ==
  LET P == {i \in 1..Len(s) : StartsAt(s, i, pat)}
  IN  IF P = {} THEN 0 ELSE Max(P)
includes(s, pat) == indexOf(s, pat) # 0

\* the character classes of the patterns
InClass(cls, c) ==
  CASE cls = "word" -> IsWord(c)
    [] cls = "letter" -> IsLetter(c)
    [] cls = "space" -> IsSpace(c)
    [] cls = "nonspace" -> NotSpace(c)
    [] cls = "urlchar" -> NotSpaceNorParen(c)
    [] cls = "digit" -> c \in Digits

\* the end (exclusive) of the longest run of characters of class cls from `from`
RunEnd(s, from, cls) ==
  LET Stop == {i \in from..Len(s) : ~InClass(cls, s[i])}
  IN  IF Stop = {} THEN Len(s) + 1 ELSE Min(Stop)

\* String.prototype.trim
trim(s) ==
  LET NS == {i \in 1..Len(s) : ~IsSpace(s[i])}
  IN  IF NS = {} THEN <<>> ELSE SubSeq(s, Min(NS), Max(NS))

\* String.prototype.replace(pattern string, ''): the first occurrence is removed
replaceFirst(s, pat) ==
  LET i == indexOf(s, pat)
  IN  IF i = 0 THEN s
      ELSE SubSeq(s, 1, i - 1) \o SubSeq(s, i + Len(pat), Len(s))

RECURSIVE Concat(_)
Concat(ss) == IF ss = <<>> THEN <<>> ELSE Head(ss) \o Concat(Tail(ss))


(***************************************************************************)
(* JavaScript values.                                                      *)
(***************************************************************************)
Undefined == [t |-> "undefined", s |-> <<>>, n |-> 0, f |-> <<>>]
Null == [t |-> "null", s |-> <<>>, n |-> 0, f |-> <<>>]
Str(x) == [t |-> "string", s |-> x, n |-> 0, f |-> <<>>]
Num(x) == [t |-> "number", s |-> <<>>, n |-> x, f |-> <<>>]
Bool(b) == [t |-> "boolean", s |-> <<>>, n |-> IF b THEN 1 ELSE 0, f |-> <<>>]
\* an object: its members [k, v] in source order
Obj(members) == [t |-> "object", s |-> <<>>, n |-> 0, f |-> members]
Member(key, val) == [k |-> key, v |-> val]

\* ToBoolean
Truthy(v) ==
  CASE v.t = "string" -> v.s # <<>>
    [] v.t = "number" -> v.n # 0
    [] v.t = "boolean" -> v.n = 1
    [] v.t = "object" -> TRUE
    [] OTHER -> FALSE
Nullish(v) == v.t \in {"undefined", "null"}

\* a || b
OrElse(a, b) == IF Truthy(a) THEN a ELSE b
\* a ?? b with the default left out: the left operand as it is
NullishOr_NoDefault(a, b) == a
\* a ?? b
NullishOr(a, b) == IF Nullish(a) THEN b ELSE a

\* v.key of a value that is not null or undefined: the last member of that
\* name of an object (JSON.parse keeps the last of repeated keys), undefined on
\* a primitive (no key read by the handlers is a property of a wrapper prototype)
Get(v, key) ==
  LET I == {i \in 1..Len(v.f) : v.f[i].k = key}
  IN  IF v.t = "object" /\ I # {} THEN v.f[Max(I)].v ELSE Undefined

K_Code == <<"C","o","d","e">>
K_Language == <<"L","a","n","g","u","a","g","e">>
K_Text == <<"T","e","x","t">>
K_ImageUrl == <<"I","m","a","g","e","U","r","l">>
K_text == <<"t","e","x","t">>
K_prompt == <<"p","r","o","m","p","t">>

(***************************************************************************)
(* The regular expressions and helper functions of api/bot.js.             *)
(***************************************************************************)
\* the backtick character (the module's lexer admits no backtick in a string)
Backtick == "BACKTICK"
Fence == <<Backtick, Backtick, Backtick>>
NoMatch == [found |-> FALSE, whole |-> <<>>, g1 |-> <<>>, g2 |-> <<>>]

\* text.match(/```(\w+)?\s*([\s\S]*?)```/m): the first fence opens; the
\* language tag and the white space after it are greedy and hold no backtick,
\* so the lazy body ends at the first fence after them. g1 is <<>> when the
\* group (\w+)? did not take part (match[1] undefined).
FencedMatch(s) ==
  LET i == indexOf(s, Fence)
      w == RunEnd(s, i + 3, "word")
      k == RunEnd(s, w, "space")
      j == IndexFrom(s, Fence, k)
  IN  IF i = 0 \/ j = 0 THEN NoMatch
      ELSE [found |-> TRUE, whole |-> SubSeq(s, i, j + 2),
            g1 |-> SubSeq(s, i + 3, w - 1), g2 |-> SubSeq(s, k, j - 1)]

\* /```/.test(text)
HasFence(s) == includes(s, Fence)

ImageExts == { <<"p","n","g">>, <<"j","p","g">>, <<"j","p","e","g">>,
               <<"g","i","f">>, <<"w","e","b","p">>, <<"s","v","g">> }
\* the length of the alternative of (?:png|jpg|jpeg|gif|webp|svg) matching at
\* p, 0 when none does (no two alternatives match at one place)
ExtLenAt(s, p) ==
  LET E == {e \in ImageExts : StartsAtI(s, p, e)}
  IN  IF E = {} THEN 0 ELSE Len(CHOOSE e \in E : TRUE)
\* the length of https?:\/\/ matching at i, 0 when it does not
SchemeLenAt(s, i) ==
  IF StartsAtI(s, i, <<"h","t","t","p",":","/","/">>) THEN 7
  ELSE IF StartsAtI(s, i, <<"h","t","t","p","s",":","/","/">>) THEN 8
  ELSE 0

\* text.match(/(https?:\/\/[^\s]+(?:png|jpg|jpeg|gif|webp|svg))/i): leftmost
\* start; [^\s]+ is greedy, so the extension is the last one in the run of
\* non-space characters that leaves [^\s]+ at least one character
PlainImageMatch(s) ==
  LET ExtStarts(i) ==
        LET L == SchemeLenAt(s, i)
            r == RunEnd(s, i + L, "nonspace")
        IN  {p \in (i + L + 1)..(r - 1) : ExtLenAt(s, p) > 0}
      Starts == {i \in 1..Len(s) : SchemeLenAt(s, i) > 0 /\ ExtStarts(i) # {}}
  IN  IF Starts = {} THEN NoMatch
      ELSE LET i == Min(Starts)
               p == Max(ExtStarts(i))
               m == SubSeq(s, i, p + ExtLenAt(s, p) - 1)
           IN  [found |-> TRUE, whole |-> m, g1 |-> m, g2 |-> <<>>]

\* text.match(/![^]*\](https?:\/\/[^\s)]+)/i): [^] is any character, and the
\* group follows the ] directly (the pattern has no literal parenthesis), so
\* the match is a ! and, after it, the last ] that is followed at once by an
\* http(s) URL
MdImageMatch(s) ==
  LET bang == indexOf(s, <<"!">>)
      UrlAfter(q) ==
        LET L == SchemeLenAt(s, q + 1)
        IN  /\ L > 0
            /\ q + 1 + L <= Len(s)
            /\ NotSpaceNorParen(s[q + 1 + L])
      Q == {q \in (bang + 1)..Len(s) : s[q] = "]" /\ UrlAfter(q)}
  IN  IF bang = 0 \/ Q = {} THEN NoMatch
      ELSE LET q == Max(Q)
               e == RunEnd(s, q + 1 + SchemeLenAt(s, q + 1), "urlchar")
           IN  [found |-> TRUE, whole |-> SubSeq(s, bang, e - 1),
                g1 |-> SubSeq(s, q + 1, e - 1), g2 |-> <<>>]

\* extractImageUrl(text): a string or null
extractImageUrl(text) ==
  IF text = <<>> THEN Null
  ELSE LET md == MdImageMatch(text)
           plain == PlainImageMatch(text)
       IN  IF md.found THEN Str(md.g1)
           ELSE IF plain.found THEN Str(plain.g1)
           ELSE Null

\* inputText.match(/<([a-zA-Z]+)(\s|>)/)
HtmlLike(s) ==
  \E i \in 1..Len(s) :
    /\ s[i] = "<"
    /\ LET w == RunEnd(s, i + 1, "letter")
       IN  /\ w > i + 1
           /\ w <= Len(s)
           /\ (IsSpace(s[w]) \/ s[w] = ">")

\* text.match(/<(\w+)[\s\S]*<\/\1>/i): leftmost <; the tag name is greedy but
\* backtracks to a shorter prefix when only that one is closed; [\s\S]* is
\* greedy, so the closing tag is the last one of that name
TagPairMatch(s) ==
  LET CloseAt(p, n, q) ==
        /\ StartsAt(s, q, <<"<", "/">>)
        /\ StartsAtI(s, q + 2, SubSeq(s, p + 1, p + n))
        /\ q + 2 + n <= Len(s)
        /\ s[q + 2 + n] = ">"
      Closes(p, n) == {q \in (p + 1 + n)..Len(s) : CloseAt(p, n, q)}
      Names(p) == {n \in 1..(RunEnd(s, p + 1, "word") - p - 1) : Closes(p, n) # {}}
      Opens == {p \in 1..Len(s) : s[p] = "<" /\ Names(p) # {}}
  IN  IF Opens = {} THEN NoMatch
      ELSE LET p == Min(Opens)
               n == Max(Names(p))
               q == Max(Closes(p, n))
           IN  [found |-> TRUE, whole |-> SubSeq(s, p, q + 2 + n),
                g1 |-> SubSeq(s, p + 1, p + n), g2 |-> <<>>]

\* extractHtmlSnippet without the test that the last > follows the first <
extractHtmlSnippet_AnyOrder(text) ==
  LET match == TagPairMatch(text)
      start == indexOf(text, <<"<">>)
      end == lastIndexOf(text, <<">">>)
  IN  IF match.found THEN Str(match.whole)
      ELSE IF start >= 1 /\ end >= 1 THEN Str(SubSeq(text, start, end))
      ELSE Null

\* extractHtmlSnippet(text): a string or null
extractHtmlSnippet(text) ==
  LET match == TagPairMatch(text)
      start == indexOf(text, <<"<">>)
      end == lastIndexOf(text, <<">">>)
  IN  IF match.found THEN Str(match.whole)
      ELSE IF start >= 1 /\ end > start THEN Str(SubSeq(text, start, end))
      ELSE Null

\* /^\s*</.test(c)
StartsWithTag(c) ==
  LET i == RunEnd(c, 1, "space")
  IN  i <= Len(c) /\ c[i] = "<"

\* detectLanguageFromCode(code)
detectLanguageFromCode(code) ==
  LET c == trim(code)
  IN  IF StartsWithTag(c) THEN <<"h","t","m","l">>
      ELSE IF \/ includes(c, <<"f","u","n","c","t","i","o","n">>)
              \/ includes(c, <<"c","o","n","s","o","l","e",".","l","o","g">>)
              \/ includes(c, <<"=",">">>)
           THEN <<"j","a","v","a","s","c","r","i","p","t">>
      ELSE IF \/ includes(c, <<"d","e","f"," ">>)
              \/ (includes(c, <<"i","m","p","o","r","t"," ">>)
                    /\ includes(c, <<"f","r","o","m">>))
           THEN <<"p","y","t","h","o","n">>
      ELSE IF \/ includes(c, <<"#","i","n","c","l","u","d","e">>)
              \/ includes(c, <<"i","n","t"," ","m","a","i","n">>)
           THEN <<"c","/","c","+","+">>
      ELSE <<"u","n","k","n","o","w","n">>

CommentOpen == <<"<","!","-","-">>
CommentClose == <<"-","-",">">>

\* wrapAsParamStyle(code), code a string
wrapAsParamStyle(code) ==
  LET wrapped == /\ Len(code) >= 7
                 /\ StartsAt(code, 1, CommentOpen)
                 /\ StartsAt(code, Len(code) - 2, CommentClose)
  IN  IF wrapped \/ Len(code) = 0 THEN code
      ELSE IF StartsWithTag(code)
           THEN CommentOpen \o <<"\n">> \o code \o <<"\n">> \o CommentClose
      ELSE code

\* removeSnippetFromText(full, snippet)
removeSnippetFromText(full, snippet) ==
  IF snippet = <<>> THEN trim(full) ELSE trim(replaceFirst(full, snippet))

(***************************************************************************)
(* JSON.parse and JSON.stringify, over the JSON texts the model's outputs   *)
(* are drawn from: null, true, false, non-negative integers, strings        *)
(* without escapes, and objects of these (no arrays, no escape sequences:   *)
(* the alphabet of the outputs holds neither a bracket nor a backslash).    *)
(***************************************************************************)
DigitSeq == <<"0","1","2","3","4","5","6","7","8","9">>
DigitVal(c) == (CHOOSE i \in 1..10 : DigitSeq[i] = c) - 1

RECURSIVE NumToStr(_)
NumToStr(n) == IF n < 10 THEN <<DigitSeq[n + 1]>>
               ELSE NumToStr(n \div 10) \o <<DigitSeq[(n % 10) + 1]>>
RECURSIVE StrToNum(_)
StrToNum(d) == IF d = <<>> THEN 0
               ELSE 10 * StrToNum(SubSeq(d, 1, Len(d) - 1)) + DigitVal(d[Len(d)])

Quote == "\""
W_null == <<"n","u","l","l">>
W_true == <<"t","r","u","e">>
W_false == <<"f","a","l","s","e">>

RECURSIVE Stringify(_), StringifyMembers(_)
\* JSON.stringify(v)
Stringify(v) ==
  CASE v.t = "null" -> W_null
    [] v.t = "number" -> NumToStr(v.n)
    [] v.t = "boolean" -> IF v.n = 1 THEN W_true ELSE W_false
    [] v.t = "string" -> <<Quote>> \o v.s \o <<Quote>>
    [] v.t = "object" -> <<"{">> \o StringifyMembers(v.f) \o <<"}">>
StringifyMembers(f) ==
  IF f = <<>> THEN <<>>
  ELSE <<Quote>> \o f[1].k \o <<Quote, ":">> \o Stringify(f[1].v)
       \o (IF Len(f) = 1 THEN <<>> ELSE <<",">> \o StringifyMembers(Tail(f)))

ParseFail == [ok |-> FALSE, val |-> Undefined, next |-> 0]
ParseOk(v, next) == [ok |-> TRUE, val |-> v, next |-> next]
SkipWs(s, i) == RunEnd(s, i, "space")

\* a string literal at i: the characters up to the next quote, none of them a
\* control character or a backslash
StringEnd(s, i, e) ==
  IF i > Len(s) \/ s[i] # Quote \/ e = 0 THEN ParseFail
  ELSE IF \E j \in (i + 1)..(e - 1) : s[j] \in {"\n", "\t", "\\"} THEN ParseFail
  ELSE ParseOk(Str(SubSeq(s, i + 1, e - 1)), e + 1)
ParseString(s, i) == StringEnd(s, i, IndexFrom(s, <<Quote>>, i + 1))

RECURSIVE ParseValue(_, _), ParseMembers(_, _, _)
\* after a member, at d: the end of the object, or a comma and the next member
MembersNext(s, d, now) ==
  IF d > Len(s) THEN ParseFail
  ELSE IF s[d] = "}" THEN ParseOk(Obj(now), d + 1)
  ELSE IF s[d] = "," THEN ParseMembers(s, SkipWs(s, d + 1), now)
  ELSE ParseFail
MemberValue(s, key, val, acc) ==
  IF ~val.ok THEN ParseFail
  ELSE MembersNext(s, SkipWs(s, val.next), Append(acc, Member(key.val.s, val.val)))
MemberColon(s, key, c, acc) ==
  IF c > Len(s) \/ s[c] # ":" THEN ParseFail
  ELSE MemberValue(s, key, ParseValue(s, SkipWs(s, c + 1)), acc)
MemberKey(s, key, acc) ==
  IF ~key.ok THEN ParseFail ELSE MemberColon(s, key, SkipWs(s, key.next), acc)
\* the members of an object from the key at i on, after the members acc
ParseMembers(s, i, acc) == MemberKey(s, ParseString(s, i), acc)

ParseNumber(s, i, e) == ParseOk(Num(StrToNum(SubSeq(s, i, e - 1))), e)
ParseObject(s, j) ==
  IF j <= Len(s) /\ s[j] = "}" THEN ParseOk(Obj(<<>>), j + 1)
  ELSE ParseMembers(s, j, <<>>)
\* the JSON value that starts at i
ParseValue(s, i) ==
  IF i > Len(s) THEN ParseFail
  ELSE IF StartsAt(s, i, W_null) THEN ParseOk(Null, i + 4)
  ELSE IF StartsAt(s, i, W_true) THEN ParseOk(Bool(TRUE), i + 4)
  ELSE IF StartsAt(s, i, W_false) THEN ParseOk(Bool(FALSE), i + 5)
  ELSE IF s[i] = "0" THEN ParseOk(Num(0), i + 1)
  ELSE IF s[i] \in Digits THEN ParseNumber(s, i, RunEnd(s, i, "digit"))
  ELSE IF s[i] = Quote THEN ParseString(s, i)
  ELSE IF s[i] = "{" THEN ParseObject(s, SkipWs(s, i + 1))
  ELSE ParseFail

\* the whole text is one value and white space
WholeText(text, r) ==
  IF r.ok /\ SkipWs(text, r.next) = Len(text) + 1 THEN r ELSE ParseFail
\* JSON.parse(text): ok is FALSE where it throws a SyntaxError
JSONparse(text) == WholeText(text, ParseValue(text, SkipWs(text, 1)))

\* modelText.match(/\{[\s\S]*\}/): from the first { to the last } after it
JsonBlock(s) ==
  LET a == indexOf(s, <<"{">>)
      B == {b \in (a + 1)..Len(s) : s[b] = "}"}
  IN  IF a = 0 \/ B = {} THEN NoMatch
      ELSE [found |-> TRUE, whole |-> SubSeq(s, a, Max(B)), g1 |-> <<>>, g2 |-> <<>>]

(***************************************************************************)
(* Responses.                                                              *)
(***************************************************************************)
ResultKeys == {"Code", "Language", "Text", "ImageUrl"}
NoResult == [k \in {} |-> Null]

\* res.json(body): JSON.stringify drops the members whose value is undefined
json(fields) == [k \in {x \in DOMAIN fields : fields[x] # Undefined} |-> fields[k]]

\* res.status(status).json({ error, ... }); extra is status/body/details
ErrorResponse(status, msg) ==
  [status |-> status, error |-> msg, result |-> NoResult, source |-> "",
   extra |-> Undefined]
\* res.status(200).json({ Code, Language, Text, ImageUrl, ... }); extra is
\* model_output (heuristic-first handler) or imageUrl (imagine)
ResultResponse(fields, source, extra) ==
  [status |-> 200, error |-> "", result |-> json(fields), source |-> source,
   extra |-> extra]

\* what a run of a handler up to its next await (or its end) does: the position
\* it stops at, the response it sent, the validated input, a model call issued
Step(next, out, text, call) == [next |-> next, out |-> out, text |-> text, call |-> call]
Respond(resp, text) == Step("done", <<resp>>, text, FALSE)
\* an exception outside every try: the handler's promise rejects and the
\* handler has sent nothing
Reject == Step("rejected", <<>>, <<>>, FALSE)
AwaitModel(text) == Step("awaiting", <<>>, text, TRUE)

H_ModelFirst == "bot.js:3"
H_HeuristicFirst == "bot.js:115"
H_Imagine == "imagine.js:3"
H_Part000 == "part_000:3"
Handlers == {H_ModelFirst, H_HeuristicFirst, H_Imagine, H_Part000}
ModelFirstHandlers == {H_ModelFirst, H_Part000}
ExtractionHandlers == {H_ModelFirst, H_HeuristicFirst, H_Part000}

(***************************************************************************)
(* The model-first handlers: api/bot.js lines 3-106 and part_000. The two   *)
(* differ in the prompt and in the default of Text only.                    *)
(***************************************************************************)
S_unknown == <<"u","n","k","n","o","w","n">>
S_html == <<"h","t","m","l">>
S_processed == <<"P","r","o","c","e","s","s","e","d"," ","s","u","c","c","e","s",
                 "s","f","u","l","l","y",".">>

\* a catch block that swallows the error and answers with an empty result
ModelFirstCatch_Swallow ==
  [status |-> 200, error |-> "", source |-> "", extra |-> Undefined,
   result |-> [Code |-> Null, Language |-> Null, Text |-> Null, ImageUrl |-> Null]]
\* the catch block: res.status(500).json({ success: false, error, details })
ModelFirstCatch == ErrorResponse(500, "Internal Server Error")

\* from the entry to `await model.generateContent(prompt)`
ModelFirstBegin(r) ==
  IF r.method # "POST" THEN Respond(ErrorResponse(405, "Method not allowed"), <<>>)
  \* const { text } = req.body, outside the try: a TypeError when there is no body
  ELSE IF Nullish(r.body) THEN Reject
  ELSE LET text == Get(r.body, K_text)
       IN  IF ~Truthy(text) \/ text.t # "string" \/ trim(text.s) = <<>>
           THEN Respond(ErrorResponse(400, "Text (non-empty string) is required"), <<>>)
           ELSE AwaitModel(text.s)

\* parsed.Text || <default>: "Processed successfully." in bot.js, text in part_000
DefaultText(h, text) == IF h = H_ModelFirst THEN Str(S_processed) ELSE Str(text)

\* try { parsed = JSON.parse(output) } catch { parsed = { Text: output } }
ParsedOrText(p, output) ==
  IF p.ok THEN p.val ELSE Obj(<<Member(K_Text, Str(output))>>)

\* the secondary heuristics and the final structured return. A property read
\* of null throws, and so does (the files are modules, hence strict code) a
\* property assignment to a primitive; the handler's catch block catches both.
ModelFirstFinish(h, text, parsed, match, urlMatch) ==
  LET fillCode == ~Truthy(Get(parsed, K_Code)) /\ HasFence(text) /\ match.found
      fillImage == ~Truthy(Get(parsed, K_ImageUrl)) /\ urlMatch.found
  IN  IF Nullish(parsed) THEN ModelFirstCatch
      ELSE IF parsed.t # "object" /\ (fillCode \/ fillImage) THEN ModelFirstCatch
      ELSE ResultResponse(
             [Code |-> OrElse(IF fillCode
                              THEN Str(CommentOpen \o trim(match.g2) \o <<"-", ">">>)
                              ELSE Get(parsed, K_Code), Null),
              Language |-> OrElse(IF fillCode
                                  THEN OrElse(Str(match.g1), Str(S_unknown))
                                  ELSE Get(parsed, K_Language), Null),
              Text |-> OrElse(Get(parsed, K_Text), DefaultText(h, text)),
              ImageUrl |-> OrElse(IF fillImage THEN Str(urlMatch.g1)
                                  ELSE Get(parsed, K_ImageUrl), Null)],
             "", Undefined)

\* from the model's output to the response
ModelFirstNormalize(h, text, output) ==
  ModelFirstFinish(h, text, ParsedOrText(JSONparse(output), output),
                   FencedMatch(text), PlainImageMatch(text))

\* the continuation of the await: generateContent rejected, or returned a text
ModelFirstResume(h, text, outcome) ==
  IF outcome.kind = "throw" THEN ModelFirstCatch
  ELSE ModelFirstNormalize(h, text, outcome.output)

(***************************************************************************)
(* The heuristic-first handler: api/bot.js lines 115-270.                   *)
(***************************************************************************)
\* the catch block: res.status(500).json({ error: 'Internal server error', details })
HeuristicFirstCatch == ErrorResponse(500, "Internal server error")

\* 1) the fenced code block: lines 131-146
FencedResponse(inputText, fencedMatch) ==
  LET tag == trim(fencedMatch.g1)
      lang == IF tag # <<>> THEN tag ELSE detectLanguageFromCode(fencedMatch.g2)
      code == trim(fencedMatch.g2)
      textOnly == trim(replaceFirst(inputText, fencedMatch.whole))
      imageurl == extractImageUrl(inputText)
  IN  ResultResponse([Code |-> Str(wrapAsParamStyle(code)),
                      Language |-> OrElse(Str(lang), Str(S_unknown)),
                      Text |-> OrElse(Str(textOnly), Null),
                      ImageUrl |-> OrElse(imageurl, Null)], "heuristic", Undefined)

\* 2) the inline HTML: lines 149-161
HtmlResponse(inputText) ==
  LET codeCandidate == OrElse(extractHtmlSnippet(inputText), Str(inputText)).s
      imageurl == extractImageUrl(inputText)
  IN  ResultResponse([Code |-> Str(wrapAsParamStyle(trim(codeCandidate))),
                      Language |-> Str(S_html),
                      Text |-> Str(removeSnippetFromText(inputText, codeCandidate)),
                      ImageUrl |-> OrElse(imageurl, Null)],
                     "heuristic-html-detect", Undefined)

\* the heuristics without the inline-HTML detection
HeuristicStage_FencedOnly(inputText) ==
  LET fencedMatch == FencedMatch(inputText)
  IN  IF fencedMatch.found THEN <<FencedResponse(inputText, fencedMatch)>>
      ELSE <<>>

\* the heuristics of lines 130-161: the response they send, <<>> when neither
\* pattern is detected
HeuristicStage(inputText) ==
  LET fencedMatch == FencedMatch(inputText)
  IN  IF fencedMatch.found THEN <<FencedResponse(inputText, fencedMatch)>>
      ELSE IF HtmlLike(inputText) THEN <<HtmlResponse(inputText)>>
      ELSE <<>>

\* from the entry to `await fetch(geminiUrl, ...)`, all of it inside the try
HeuristicFirstBegin(r, e) ==
  IF r.method # "POST"
  THEN Respond(ErrorResponse(405, "Method not allowed - use POST"), <<>>)
  ELSE LET inputText == IF r.body.t = "string" THEN r.body
                        ELSE IF Nullish(r.body) THEN Str(<<>>)
                        ELSE NullishOr(Get(r.body, K_text), Str(<<>>))
       IN  IF ~Truthy(inputText)
           THEN Respond(ErrorResponse(400, "No text provided in request body"), <<>>)
           \* inputText.trim is not a function: a TypeError, caught
           ELSE IF inputText.t # "string" THEN Respond(HeuristicFirstCatch, <<>>)
           ELSE IF Len(trim(inputText.s)) = 0
           THEN Respond(ErrorResponse(400, "No text provided in request body"), <<>>)
           ELSE IF HeuristicStage(inputText.s) # <<>>
           THEN Respond(HeuristicStage(inputText.s)[1], inputText.s)
           ELSE IF ~e.configured
           THEN Respond(ErrorResponse(500, "Server misconfigured"), inputText.s)
           ELSE AwaitModel(inputText.s)

\* lines 233-242: JSON.parse, then the first JSON block of the text
ParsedOrBlock(whole, jsonBlock, inner) ==
  IF whole.ok THEN whole.val
  ELSE IF jsonBlock.found /\ inner.ok THEN inner.val
  ELSE Null

\* lines 244-265: the raw fallback, or the fields of the parsed output
HeuristicFirstFinish(inputText, modelText, parsed) ==
  IF ~Truthy(parsed)
  THEN ResultResponse([Code |-> Null, Language |-> Null,
                       Text |-> Str(inputText),
                       ImageUrl |-> OrElse(extractImageUrl(inputText), Null)],
                      "model-raw", Str(modelText))
  ELSE ResultResponse([Code |-> NullishOr(Get(parsed, K_Code), Null),
                       Language |-> NullishOr(Get(parsed, K_Language), Null),
                       Text |-> NullishOr(Get(parsed, K_Text), Null),
                       ImageUrl |-> NullishOr(Get(parsed, K_ImageUrl), Null)],
                      "model-parsed", Undefined)

\* lines 232-265: from the model's text to the response
HeuristicFirstNormalize(inputText, modelText) ==
  HeuristicFirstFinish(inputText, modelText,
    ParsedOrBlock(JSONparse(modelText), JsonBlock(modelText),
                  JSONparse(JsonBlock(modelText).whole)))

\* the continuation of `await fetch`: fetch rejected ("throw"), !r.ok ("notok"),
\* r.json() rejected ("badjson"), a provider result with the model's text in
\* one of the three places read at lines 226-228 ("output"), or a result with
\* none of them ("bare": the text is JSON.stringify(result), and a null result
\* throws at result.output)
HeuristicFirstResume(inputText, outcome) ==
  CASE outcome.kind = "throw" -> HeuristicFirstCatch
    [] outcome.kind = "notok" -> ErrorResponse(502, "Upstream model error")
    [] outcome.kind = "badjson" -> HeuristicFirstCatch
    [] outcome.kind = "bare" ->
         IF Nullish(outcome.value) THEN HeuristicFirstCatch
         ELSE HeuristicFirstNormalize(inputText, Stringify(outcome.value))
    [] outcome.kind = "output" -> HeuristicFirstNormalize(inputText, outcome.output)

(***************************************************************************)
(* The image handler: api/imagine.js.                                       *)
(***************************************************************************)
S_dataUrl == <<"d","a","t","a",":","i","m","a","g","e","/","p","n","g",";","b",
               "a","s","e","6","4",",">>

ImagineCatch == ErrorResponse(500, "Internal Server Error")

ImagineBegin(r) ==
  IF r.method # "POST" THEN Respond(ErrorResponse(405, "Method not allowed"), <<>>)
  \* const { prompt } = req.body, outside the try
  ELSE IF Nullish(r.body) THEN Reject
  ELSE LET prompt == Get(r.body, K_prompt)
       IN  IF ~Truthy(prompt) \/ prompt.t # "string"
           THEN Respond(ErrorResponse(400, "Prompt is required"), <<>>)
           ELSE AwaitModel(prompt.s)

\* the continuation: generateContent rejected ("throw"), or returned a result
\* whose first part holds inline data ("image": value is the data) or does not
\* ("image" with an undefined or empty value)
ImagineResume(outcome) ==
  IF outcome.kind = "throw" THEN ImagineCatch
  ELSE IF ~Truthy(outcome.value) THEN ErrorResponse(500, "No image generated")
  ELSE [status |-> 200, error |-> "", result |-> NoResult, source |-> "",
        extra |-> Str(S_dataUrl \o outcome.value.s)]

(***************************************************************************)
(* The inputs: request texts, request bodies, outcomes of the model call.   *)
(***************************************************************************)
\* the concatenations of at most n tokens of T
RECURSIVE AllTexts(_, _)
AllTexts(T, n) ==
  IF n = 0 THEN {<<>>}
  ELSE LET P == AllTexts(T, n - 1) IN P \cup {p \o t : p \in P, t \in T}

T_url == <<"h","t","t","p",":","/","/","a",".","p","n","g">>
ReqTokens == { Fence, <<"j","s">>, <<" ">>, <<"<","b",">">>, <<"<","/","b",">">>,
               <<"x">>, T_url }
ReqTexts == AllTexts(ReqTokens, MaxTok)

\* the body member a handler reads
InputKey(h) == IF h = H_Imagine THEN K_prompt ELSE K_text
\* a request body: none, a raw string, an object without the member, or an
\* object whose member is null, a number, a boolean or a string
Bodies(h, m) ==
  IF m = "POST"
  THEN {Undefined, Obj(<<>>)}
       \cup {Str(t) : t \in AllTexts(ReqTokens, 1)}
       \cup {Obj(<<Member(InputKey(h), v)>>) :
               v \in {Null, Num(0), Num(5), Bool(TRUE)} \cup {Str(t) : t \in ReqTexts}}
  ELSE {Undefined, Obj(<<Member(InputKey(h), Str(<<"x">>))>>)}

\* the JSON values a model answers with
V_full == Obj(<<Member(K_Code, Str(<<"c">>)), Member(K_Language, Str(<<"p","y">>)),
                Member(K_Text, Str(<<"t">>)),
                Member(K_ImageUrl, Str(<<"h","t","t","p",":","/","/","m",".","g","i","f">>))>>)
V_lang == Obj(<<Member(K_Code, Null), Member(K_Language, Str(<<"p","y">>))>>)
V_text == Obj(<<Member(K_Text, Str(<<"t">>))>>)
V_emptyCode == Obj(<<Member(K_Code, Str(<<>>)), Member(K_Text, Null)>>)
ModelValues == {V_full, V_lang, V_text, V_emptyCode, Obj(<<>>),
                Null, Num(5), Str(<<"s">>), Bool(FALSE)}
S_ok == <<"o","k">>
\* the texts a model answers with: JSON texts, a JSON object inside prose,
\* prose, braces that hold no JSON, the empty text
ModelOutputs ==
  {Stringify(v) : v \in ModelValues}
  \cup { S_ok \o <<" ">> \o Stringify(V_full) \o <<" ">> \o S_ok,
         S_ok, <<"{">> \o S_ok \o <<"}">>, <<>> }

NoOutcome == [kind |-> "none", output |-> <<>>, value |-> Undefined]
Outcome(kind, output, value) == [kind |-> kind, output |-> output, value |-> value]
Outcomes(h) ==
  {Outcome("throw", <<>>, Undefined)}
  \cup (IF h \in ExtractionHandlers
        THEN {Outcome("output", o, Undefined) : o \in ModelOutputs} ELSE {})
  \cup (IF h = H_HeuristicFirst
        THEN {Outcome("notok", <<>>, Undefined), Outcome("badjson", <<>>, Undefined)}
             \cup {Outcome("bare", <<>>, v) : v \in {Null, Obj(<<>>), V_text}}
        ELSE {})
  \cup (IF h = H_Imagine
        THEN {Outcome("image", <<>>, v) : v \in {Undefined, Str(<<"Q","Q">>)}}
        ELSE {})

(***************************************************************************)
(* The state machine of one request.                                        *)
(***************************************************************************)
FnIdle == fnText = <<>> /\ fnCall = "none" /\ fnResult = Undefined

Init ==
  /\ handler = "none"
  /\ req = [method |-> "", body |-> Undefined]
  /\ env = [configured |-> TRUE]
  /\ pc = "idle"
  /\ validText = <<>>
  /\ calls = 0
  /\ upstream = NoOutcome
  /\ responses = <<>>
  /\ FnIdle

\* a request arrives at an endpoint; GEMINI_API_URL and GEMINI_API_KEY, read by
\* the heuristic-first handler alone, are set or not
Request(h, m, b, cfg) ==
  /\ pc = "idle"
  /\ handler' = h
  /\ req' = [method |-> m, body |-> b]
  /\ env' = [configured |-> cfg]
  /\ pc' = "pending"
  /\ UNCHANGED <<validText, calls, upstream, responses>>
  /\ UNCHANGED fnVars

\* handler h runs from its entry to its first await, or to its end
Run(h, step) ==
  /\ pc = "pending"
  /\ handler = h
  /\ pc' = step.next
  /\ responses' = responses \o step.out
  /\ validText' = step.text
  /\ calls' = IF step.call THEN calls + 1 ELSE calls
  /\ UNCHANGED <<handler, req, env, upstream>>
  /\ UNCHANGED fnVars

RunModelFirst == Run(H_ModelFirst, ModelFirstBegin(req))
RunPart000 == Run(H_Part000, ModelFirstBegin(req))
RunHeuristicFirst == Run(H_HeuristicFirst, HeuristicFirstBegin(req, env))
RunImagine == Run(H_Imagine, ImagineBegin(req))

\* the model call of handler h settles with outcome o and the handler runs on
\* to its end
Resume(h, o, resp) ==
  /\ pc = "awaiting"
  /\ handler = h
  /\ upstream' = o
  /\ responses' = Append(responses, resp)
  /\ pc' = "done"
  /\ UNCHANGED <<handler, req, env, validText, calls>>
  /\ UNCHANGED fnVars

ResumeModelFirst ==
  /\ pc = "awaiting" /\ handler = H_ModelFirst
  /\ \E o \in Outcomes(H_ModelFirst) :
       Resume(H_ModelFirst, o, ModelFirstResume(H_ModelFirst, validText, o))
ResumePart000 ==
  /\ pc = "awaiting" /\ handler = H_Part000
  /\ \E o \in Outcomes(H_Part000) :
       Resume(H_Part000, o, ModelFirstResume(H_Part000, validText, o))
ResumeHeuristicFirst ==
  /\ pc = "awaiting" /\ handler = H_HeuristicFirst
  /\ \E o \in Outcomes(H_HeuristicFirst) :
       Resume(H_HeuristicFirst, o, HeuristicFirstResume(validText, o))
ResumeImagine ==
  /\ pc = "awaiting" /\ handler = H_Imagine
  /\ \E o \in Outcomes(H_Imagine) : Resume(H_Imagine, o, ImagineResume(o))

Arrive ==
  /\ pc = "idle"
  /\ \E h \in Handlers, m \in {"POST", "GET"} :
       \E b \in Bodies(h, m),
          cfg \in (IF h = H_HeuristicFirst THEN BOOLEAN ELSE {TRUE}) :
         Request(h, m, b, cfg)

Next ==
  \/ Arrive
  \/ RunModelFirst
  \/ RunPart000
  \/ RunHeuristicFirst
  \/ RunImagine
  \/ ResumeModelFirst
  \/ ResumePart000
  \/ ResumeHeuristicFirst
  \/ ResumeImagine

Spec == Init /\ [][Next]_vars

(***************************************************************************)
(* The helper functions applied to texts of their own.                      *)
(***************************************************************************)
T_bare == T_url
T_mdPlain == <<"!","[","a","]","(","h","t","t","p",":","/","/","c",".","i","o","/","d",")">>
T_mdImage == <<"!","[","a","]","(","h","t","t","p","s",":","/","/","e",".","J","P","G",")">>
FnTokens == { <<"<">>, <<">">>, <<"<","b">>, <<"<","/","b",">">>, <<"b">>, <<" ">>,
              <<"!">>, <<"]">>, T_bare, T_mdPlain, T_mdImage }
FnTexts == AllTexts(FnTokens, MaxFnTok)

FnInit ==
  /\ handler = "none"
  /\ req = [method |-> "", body |-> Undefined]
  /\ env = [configured |-> TRUE]
  /\ pc = "idle"
  /\ validText = <<>>
  /\ calls = 0
  /\ upstream = NoOutcome
  /\ responses = <<>>
  /\ fnText \in FnTexts
  /\ fnCall = "none"
  /\ fnResult = Undefined

Apply(name, result) ==
  /\ fnCall = "none"
  /\ fnCall' = name
  /\ fnResult' = result
  /\ UNCHANGED fnText
  /\ UNCHANGED reqVars

CallExtractHtmlSnippet == Apply("extractHtmlSnippet", extractHtmlSnippet(fnText))
CallExtractImageUrl == Apply("extractImageUrl", extractImageUrl(fnText))

FnNext ==
  \/ CallExtractHtmlSnippet
  \/ CallExtractImageUrl

FnSpec == FnInit /\ [][FnNext]_vars

(***************************************************************************)
(* The claims.                                                              *)
(***************************************************************************)
Finished == pc \in {"done", "rejected"}
LastResponse == responses[Len(responses)]
KeyChars == [Code |-> K_Code, Language |-> K_Language, Text |-> K_Text,
             ImageUrl |-> K_ImageUrl]

\* the text or prompt a request carries: the raw string body, or the member
\* the handler reads; undefined when there is none
RequestInput ==
  IF req.body.t = "string" THEN req.body
  ELSE IF req.body.t = "object" THEN Get(req.body, InputKey(handler))
  ELSE Undefined
\* missing, not a string, empty or white space only
BadInput == RequestInput.t # "string" \/ trim(RequestInput.s) = <<>>

\* C1: a request that is not a POST, or whose text/prompt is missing, blank or
\* not a string, never reaches the model and is answered with one response,
\* 405 for the method and 400 for the input. (Stated for the requests that
\* carry a body; a request without one is the case of C10.)
C1_InvalidRequestsGet4xx ==
  (/\ handler \in Handlers
   /\ ~Nullish(req.body)
   /\ (req.method # "POST" \/ BadInput)) =>
    /\ calls = 0
    /\ Finished =>
         /\ Len(responses) = 1
         /\ LastResponse.status = (IF req.method # "POST" THEN 405 ELSE 400)

\* C2: on the text-extraction endpoints, once the model call has returned an
\* output (whatever its content) the response of a validated request is 200,
\* never a 5xx.
C2_OutputAlwaysRecovered ==
  (/\ handler \in ExtractionHandlers
   /\ pc = "done"
   /\ upstream.kind = "output") => LastResponse.status = 200

\* C3: every 200 response of a text-extraction endpoint carries all four keys
\* Code, Language, Text and ImageUrl, each holding a value or null.
C3_AllFourKeys ==
  \A i \in 1..Len(responses) :
    (handler \in ExtractionHandlers /\ responses[i].status = 200) =>
      /\ DOMAIN responses[i].result = ResultKeys
      /\ \A k \in ResultKeys : responses[i].result[k].t # "undefined"

\* C3 witness: the heuristic-first handler answers from a parsed model output
\* that holds none of the four keys.
C3_Witness ==
  /\ handler = H_HeuristicFirst
  /\ pc = "done"
  /\ upstream.kind = "output"
  /\ upstream.output = <<"{", "}">>
  /\ LastResponse.source = "model-parsed"
  /\ LastResponse.result["Code"] = Null

\* C4: in the model-first handlers every non-null Code, Language or ImageUrl
\* of the model's JSON object is emitted unchanged.
C4_ModelFieldsKept ==
  (/\ handler \in ModelFirstHandlers
   /\ pc = "done"
   /\ upstream.kind = "output"
   /\ JSONparse(upstream.output).ok
   /\ JSONparse(upstream.output).val.t = "object"
   /\ LastResponse.status = 200) =>
     \A k \in {"Code", "Language", "ImageUrl"} :
       ~Nullish(Get(JSONparse(upstream.output).val, KeyChars[k])) =>
         /\ k \in DOMAIN LastResponse.result
         /\ LastResponse.result[k] = Get(JSONparse(upstream.output).val, KeyChars[k])

\* a fenced code block: a fence, and a second fence after it
C5_HasFencedBlock(s) ==
  \E i, j \in 1..Len(s) : StartsAt(s, i, Fence) /\ StartsAt(s, j, Fence) /\ j >= i + 3
\* an HTML-like opening tag: a <, letters, then white space or >
C5_HasOpeningTag(s) ==
  \E i \in 1..Len(s), w \in 1..Len(s) :
    /\ s[i] = "<"
    /\ w > i + 1
    /\ \A x \in (i + 1)..(w - 1) : IsLetter(s[x])
    /\ (IsSpace(s[w]) \/ s[w] = ">")

\* C5: in the heuristic-first handler a valid input that holds a fenced code
\* block or an HTML-like opening tag never reaches the model, and is answered
\* with 200 by the heuristics; the model is called only when neither is there.
C5_HeuristicsShortCircuit ==
  (/\ handler = H_HeuristicFirst
   /\ req.method = "POST"
   /\ ~BadInput
   /\ (C5_HasFencedBlock(RequestInput.s) \/ C5_HasOpeningTag(RequestInput.s))) =>
     /\ calls = 0
     /\ pc # "awaiting"
     /\ pc = "done" =>
          /\ Len(responses) = 1
          /\ LastResponse.status = 200
          /\ LastResponse.source \in {"heuristic", "heuristic-html-detect"}

\* C5 witness: an input with a tag and no fence is answered by the HTML
\* heuristic without a model call.
C5_Witness ==
  /\ handler = H_HeuristicFirst
  /\ pc = "done"
  /\ ~C5_HasFencedBlock(RequestInput.s)
  /\ C5_HasOpeningTag(RequestInput.s)
  /\ LastResponse.source = "heuristic-html-detect"
  /\ calls = 0

\* C6: the model is called at most once per request, and a call that throws
\* or returns a non-success status ends the request with one 5xx response
\* that carries an error.
C6_UpstreamFailureTerminal ==
  /\ calls <= 1
  /\ upstream.kind \in {"throw", "notok"} =>
       /\ pc = "done"
       /\ calls = 1
       /\ Len(responses) = 1
       /\ LastResponse.status \in 500..599
       /\ LastResponse.error # ""

\* C6 witness: a model-first handler whose model call threw has answered 500.
C6_Witness ==
  /\ handler = H_ModelFirst
  /\ upstream.kind = "throw"
  /\ calls = 1
  /\ LastResponse.status = 500

\* the model output parses neither as a whole nor through an embedded {...}
C7_Unparseable(o) ==
  /\ ~JSONparse(o).ok
  /\ ~(JsonBlock(o).found /\ JSONparse(JsonBlock(o).whole).ok)

\* C7: when the model output cannot be parsed as JSON, Text is the entire
\* model output, and Code, Language and ImageUrl are null unless a heuristic
\* fills them from the input.
C7_UnparsedOutputIsText ==
  (/\ handler \in ExtractionHandlers
   /\ pc = "done"
   /\ upstream.kind = "output"
   /\ C7_Unparseable(upstream.output)
   /\ LastResponse.status = 200) =>
     /\ LastResponse.result["Text"] = Str(upstream.output)
     /\ (LastResponse.result["Code"] = Null \/ FencedMatch(validText).found)
     /\ (LastResponse.result["Language"] = Null \/ FencedMatch(validText).found)
     /\ (LastResponse.result["ImageUrl"] = Null \/ extractImageUrl(validText) # Null)

\* an opening-tag pattern: a < immediately followed by a word character
C8_HasOpeningTag(s) ==
  \E i \in 1..(Len(s) - 1) : s[i] = "<" /\ IsWord(s[i + 1])
\* a > somewhere after the first <
C8_ClosedAfterOpen(s) ==
  \E i, j \in 1..Len(s) : s[i] = "<" /\ s[j] = ">" /\ i < j

\* C8 as stated: without an opening-tag pattern extractHtmlSnippet returns null.
C8_NoTagGivesNull ==
  (fnCall = "extractHtmlSnippet" /\ ~C8_HasOpeningTag(fnText)) => fnResult = Null

\* C8 as amended: without an opening-tag pattern extractHtmlSnippet returns
\* null when no > follows the first <, and otherwise the span from the first <
\* to the last >.
C8_NoTagGivesNullOrSpan ==
  (fnCall = "extractHtmlSnippet" /\ ~C8_HasOpeningTag(fnText)) =>
    IF C8_ClosedAfterOpen(fnText)
    THEN fnResult = Str(SubSeq(fnText,
                               Min({i \in 1..Len(fnText) : fnText[i] = "<"}),
                               Max({j \in 1..Len(fnText) : fnText[j] = ">"})))
    ELSE fnResult = Null

\* C8 witness: a text with a stray > and then a stray < gives null.
C8_Witness ==
  /\ fnCall = "extractHtmlSnippet"
  /\ ~C8_HasOpeningTag(fnText)
  /\ includes(fnText, <<"<">>)
  /\ includes(fnText, <<">">>)
  /\ fnResult = Null

\* the markdown image links ![alt](url) with an http(s) url: where each
\* starts, and its url
C9_LinkUrl(s, p) ==
  LET q == IndexFrom(s, <<"]">>, p + 2)
      e == IndexFrom(s, <<")">>, q + 2)
  IN  IF /\ StartsAt(s, p, <<"!", "[">>)
         /\ q # 0
         /\ StartsAt(s, q + 1, <<"(">>)
         /\ SchemeLenAt(s, q + 2) > 0
         /\ e > q + 2 + SchemeLenAt(s, q + 2)
         /\ \A x \in (q + 2)..(e - 1) : ~IsSpace(s[x])
      THEN SubSeq(s, q + 2, e - 1)
      ELSE <<>>
C9_Links(s) == {p \in 1..Len(s) : C9_LinkUrl(s, p) # <<>>}

\* C9: extractImageUrl returns the url of the first markdown image link when
\* there is one, else the first bare image URL, else null.
C9_MarkdownLinkFirst ==
  fnCall = "extractImageUrl" =>
    fnResult = (IF C9_Links(fnText) # {}
                THEN Str(C9_LinkUrl(fnText, Min(C9_Links(fnText))))
                ELSE IF PlainImageMatch(fnText).found
                THEN Str(PlainImageMatch(fnText).g1)
                ELSE Null)

\* C10: a handler that has ended has sent exactly one response, and no
\* handler ever sends a second one.
C10_ExactlyOneResponse ==
  /\ Len(responses) <= 1
  /\ Finished => Len(responses) = 1

=============================================================================
